---- MODULE Spec2Model ----
(***************************************************************************)
(* DataPipelineScheduler (src/src/pipeline/scheduler.py): the task         *)
(* registry and its dependency graph (add_task), the layer computation at  *)
(* the start of run, and the layered execution with retries (execute_task, *)
(* run).                                                                   *)
(***************************************************************************)
EXTENDS Integers, Sequences, FiniteSets, TLC

VARIABLES
    tasks,            \* self.tasks: name -> PipelineTask (a dict: DOMAIN = its keys)
    nodes,            \* self.graph: the nodes, in insertion order
    succ,             \* self.graph: node -> its successors, in edge insertion order
    nAdds,            \* number of add_task calls made so far
    lastTask,         \* the argument of the latest add_task call
    addResult,        \* how the latest add_task call ended
    pc,               \* where run is
    task_order,       \* run: the local task_order
    visited,          \* run: the local visited
    priority_layers,  \* run: the local priority_layers
    runError,         \* the exception run raised, "none" if none
    layer_index,      \* run: the number of layers launched so far
    tstate,           \* execute_task(n): where the coroutine is
    attempt,          \* execute_task(n): the loop variable attempt
    results_cache,    \* self.results_cache: name -> result (a dict)
    invocations,      \* how many times task.function was invoked for n
    failures,         \* how many attempts of n failed
    sleeps,           \* the delays execute_task(n) slept, in order
    gather_exception, \* the exception of the gather run awaits, NoException if none
    call_args,        \* the arguments of the latest invocation of task.function for n
    mpc,              \* where main (src/main.py) is
    mainResult,       \* how main ended, "none" while it runs
    api_process,      \* main: the API server process
    dashboard_process, \* main: the dashboard process
    polls,            \* wait_for_api: the requests made so far
    api_ready         \* whether the API server has answered a request with status 200

regVars == <<tasks, nodes, succ, nAdds, lastTask, addResult>>
layerVars == <<pc, task_order, visited, priority_layers, runError>>
execVars == <<layer_index, tstate, attempt, results_cache, invocations,
              failures, sleeps, gather_exception, call_args>>
mainVars == <<mpc, mainResult, api_process, dashboard_process, polls, api_ready>>
vars == <<tasks, nodes, succ, nAdds, lastTask, addResult,
          pc, task_order, visited, priority_layers, runError,
          layer_index, tstate, attempt, results_cache, invocations,
          failures, sleeps, gather_exception, call_args,
          mpc, mainResult, api_process, dashboard_process, polls, api_ready>>

(***************************************************************************)
(* Bounds.                                                                 *)
(***************************************************************************)
MaxAdds == 3       \* add_task calls of a caller that catches their errors
MaxDeps == 2       \* length of a task's dependency list
MaxRetries == 3    \* a task's retries

Names == {"A", "B", "C", "D"}

\* Priority (lines 9-12)
HIGH == 0
MEDIUM == 1
LOW == 2
Priority == {HIGH, MEDIUM, LOW}

Range(s) == {s[i] : i \in 1..Len(s)}

\* Lists of distinct names of length at most n
RECURSIVE DepListsOf(_, _)
DepListsOf(S, n) ==
    IF n = 0 THEN {<<>>}
    ELSE LET shorter == DepListsOf(S, n - 1)
             longest == {m \in shorter : Len(m) = n - 1}
         IN  shorter \cup UNION {{Append(l, x) : x \in S \ Range(l)} : l \in longest}

\* PipelineTask (lines 14-22), the fields the scheduler reads; of function,
\* whether it is a coroutine function (asyncio.iscoroutinefunction)
PipelineTask(n, p, d, r, k) ==
    [name |-> n, priority |-> p, dependencies |-> d, retries |-> r, kind |-> k]

DefaultRetries == 3

NoTask == PipelineTask("", MEDIUM, <<>>, DefaultRetries, "coroutine")

(***************************************************************************)
(* networkx.DiGraph, as add_task and run use it.                           *)
(***************************************************************************)
\* graph.add_node(n): a node already there keeps its place
add_node(ns, n) == IF n \in Range(ns) THEN ns ELSE Append(ns, n)

\* graph.add_edge(u, v): an edge already there keeps its place
add_edge(sc, u, v) ==
    IF v \in Range(sc[u]) THEN sc ELSE [sc EXCEPT ![u] = Append(@, v)]

in_degree(sc, v) == Cardinality({u \in Names : v \in Range(sc[u])})

\* topological_generations, one node's children: lower each child's
\* in-degree, a child that reaches 0 joins the next generation
RECURSIVE Relax(_, _, _, _)
Relax(indeg, zero, children, j) ==
    IF j > Len(children) THEN [indeg |-> indeg, zero |-> zero]
    ELSE LET child == children[j]
             d == indeg[child] - 1
         IN  Relax([indeg EXCEPT ![child] = d],
                   IF d = 0 THEN Append(zero, child) ELSE zero,
                   children, j + 1)

\* topological_generations, one generation: its nodes in order
RECURSIVE RelaxGeneration(_, _, _, _, _)
RelaxGeneration(sc, indeg, zero, gen, i) ==
    IF i > Len(gen) THEN [indeg |-> indeg, zero |-> zero]
    ELSE LET r == Relax(indeg, zero, sc[gen[i]], 1)
         IN  RelaxGeneration(sc, r.indeg, r.zero, gen, i + 1)

\* topological_generations: generation after generation, until none is left
RECURSIVE Generations(_, _, _, _)
Generations(sc, indeg, gen, acc) ==
    IF gen = <<>> THEN [order |-> acc, indeg |-> indeg]
    ELSE LET r == RelaxGeneration(sc, indeg, <<>>, gen, 1)
         IN  Generations(sc, r.indeg, r.zero, acc \o gen)

\* nx.topological_sort(graph), consumed by list(): the order, and whether
\* it raised NetworkXUnfeasible (some in-degree never reached 0)
topological_sort(ns, sc) ==
    LET indeg0 == [v \in Names |-> in_degree(sc, v)]
        zero0 == SelectSeq(ns, LAMBDA v : indeg0[v] = 0)
        r == Generations(sc, indeg0, zero0, <<>>)
    IN  [order |-> r.order,
         feasible |-> \A v \in Range(ns) : r.indeg[v] = 0]

\* nx.is_directed_acyclic_graph(graph)
is_directed_acyclic_graph(ns, sc) == topological_sort(ns, sc).feasible

(***************************************************************************)
(* add_task (lines 35-46)                                                  *)
(***************************************************************************)
\* self.tasks[task.name] = task
put_task(ts, t) ==
    [n \in DOMAIN ts \cup {t.name} |-> IF n = t.name THEN t ELSE ts[n]]

\* the loop over task.dependencies (lines 40-43), from the i-th on: it stops
\* at the first name that is not a key of self.tasks
RECURSIVE add_dependencies(_, _, _, _)
add_dependencies(sc, ts, t, i) ==
    IF i > Len(t.dependencies) THEN [succ |-> sc, found |-> TRUE]
    ELSE IF t.dependencies[i] \notin DOMAIN ts THEN [succ |-> sc, found |-> FALSE]
    ELSE add_dependencies(add_edge(sc, t.dependencies[i], t.name), ts, t, i + 1)

add_task(t) ==
    LET ts == put_task(tasks, t)
        ns == add_node(nodes, t.name)
        r == add_dependencies(succ, ts, t, 1)
    IN  /\ pc = "idle"
        /\ nAdds' = nAdds + 1
        /\ lastTask' = t
        /\ tasks' = ts
        /\ nodes' = ns
        /\ succ' = r.succ
        /\ addResult' = IF ~r.found THEN "UnknownDependency"
                        ELSE IF ~is_directed_acyclic_graph(ns, r.succ)
                             THEN "CycleDetected"
                        ELSE "ok"
        /\ UNCHANGED <<layerVars, execVars>>
        /\ UNCHANGED mainVars

(***************************************************************************)
(* run (lines 88-128): the layer computation                               *)
(***************************************************************************)
\* the sort key (line 109): self.tasks[x].priority.value
sort_key(n) == tasks[n].priority

\* list.sort(key=...), a stable sort: x goes after every element whose key
\* is not greater than its own
RECURSIVE sort_insert_unstable(_, _)
sort_insert_unstable(s, x) ==
    IF s = <<>> THEN <<x>>
    ELSE IF sort_key(s[Len(s)]) < sort_key(x) THEN Append(s, x)
    ELSE Append(sort_insert_unstable(SubSeq(s, 1, Len(s) - 1), x), s[Len(s)])

RECURSIVE sort_insert(_, _)
sort_insert(s, x) ==
    IF s = <<>> THEN <<x>>
    ELSE IF sort_key(s[Len(s)]) <= sort_key(x) THEN Append(s, x)
    ELSE Append(sort_insert(SubSeq(s, 1, Len(s) - 1), x), s[Len(s)])

RECURSIVE sort(_)
sort(s) ==
    IF s = <<>> THEN <<>>
    ELSE sort_insert(sort(SubSeq(s, 1, Len(s) - 1)), s[Len(s)])

\* a filter that looks at the first dependency only
dependencies_met_first_only(n, vis) ==
    tasks[n].dependencies = <<>> \/ tasks[n].dependencies[1] \in vis

\* all(dep in visited for dep in self.tasks[task_name].dependencies)
dependencies_met(n, vis) == \A d \in Range(tasks[n].dependencies) : d \in vis

\* a filter that lets through the ready tasks of the best priority only
ready_tasks_best_priority(order, vis) ==
    LET r == sort(SelectSeq(order, LAMBDA n : dependencies_met(n, vis)))
    IN  SelectSeq(r, LAMBDA n : sort_key(n) = sort_key(r[1]))

\* lines 103-109
ready_tasks(order, vis) ==
    sort(SelectSeq(order, LAMBDA n : dependencies_met(n, vis)))

\* lines 90-96
run_start ==
    LET r == topological_sort(nodes, succ)
    IN  /\ pc = "idle"
        /\ IF r.feasible
           THEN /\ pc' = "layers"
                /\ task_order' = r.order
                /\ runError' = "none"
           ELSE /\ pc' = "raised"
                /\ task_order' = <<>>
                /\ runError' = "NetworkXUnfeasible"
        /\ visited' = {}
        /\ priority_layers' = <<>>
        /\ UNCHANGED <<regVars, execVars>>
        /\ UNCHANGED mainVars

\* one iteration of the while loop (lines 98-117)
layer_step ==
    LET ready == ready_tasks(task_order, visited)
    IN  /\ pc = "layers"
        /\ task_order # <<>>
        /\ visited' = visited \cup Range(ready)
        /\ task_order' = SelectSeq(task_order, LAMBDA n : n \notin Range(ready))
        /\ priority_layers' = IF ready # <<>> THEN Append(priority_layers, ready)
                              ELSE priority_layers
        /\ UNCHANGED <<pc, runError>>
        /\ UNCHANGED <<regVars, execVars>>
        /\ UNCHANGED mainVars

\* the while loop ends (line 98)
layers_done ==
    /\ pc = "layers"
    /\ task_order = <<>>
    /\ pc' = "exec"
    /\ UNCHANGED <<task_order, visited, priority_layers, runError>>
    /\ UNCHANGED <<regVars, execVars>>
    /\ UNCHANGED mainVars


(***************************************************************************)
(* execute_task (lines 48-86)                                              *)
(***************************************************************************)
\* What one invocation of task.function does: it returns a value within
\* task.timeout, it raises, or it runs longer than task.timeout.
Behaviours == {"returns", "raises", "overruns"}

\* the value task n's function returns on attempt a
ResultOf(n, a) == <<n, a>>

\* 2 * attempt where the code has 2 ** attempt
Pow2Linear(k) == 2 * k

RECURSIVE Pow2(_)
Pow2(k) == IF k = 0 THEN 1 ELSE 2 * Pow2(k - 1)

\* a store that replaces the whole cache by the one entry
put_result_alone(cache, n, v) == [m \in {n} |-> v]

\* self.results_cache[task_name] = result (line 74)
put_result(cache, n, v) ==
    [m \in DOMAIN cache \cup {n} |-> IF m = n THEN v ELSE cache[m]]

\* whether another attempt follows a failed one (line 83)
attempts_remain(n) == attempt[n] < tasks[n].retries - 1

\* lines 72-75: the attempt succeeded
attempt_succeeds(n) ==
    /\ results_cache' = put_result(results_cache, n, ResultOf(n, attempt[n]))
    /\ tstate' = [tstate EXCEPT ![n] = "done"]
    /\ UNCHANGED <<attempt, failures, sleeps, gather_exception>>

\* What an exception carries to whoever catches it: the task name and the
\* number of attempts its message gives, and the exception chained to it
\* (__cause__ or __context__), NoCause if none is
NoCause == "none"

NoException == [name |-> "", attempts |-> 0, cause |-> NoCause]

\* what an attempt can fail with: asyncio.TimeoutError (line 77), an
\* exception of the function or the KeyError of line 58 (line 79)
Causes == {"TimeoutError", "Exception", "KeyError"}

\* line 86: Exception(f"Task {task_name} failed after {task.retries}
\* attempts"), raised after the for loop, outside every except block and
\* without from
exception(n) == [name |-> n, attempts |-> tasks[n].retries, cause |-> NoCause]

\* asyncio.gather without return_exceptions: the first exception a child
\* raises becomes the exception of the gather, later ones are dropped
gather_set_exception(e) ==
    gather_exception' = IF gather_exception = NoException THEN e
                        ELSE gather_exception

\* a gather that cancels the children still running when one has raised
gather_cancels_children(ts) ==
    [m \in Names |->
        IF ts[m] \in {"scheduled", "awaiting", "calling", "sleeping"} THEN "cancelled"
        ELSE ts[m]]

\* asyncio.gather without return_exceptions, when a child has raised: the
\* other children are not cancelled, they run on
gather_children(ts) == ts

\* lines 77-86: the attempt failed; back off, or give up after the last one
attempt_fails(n) ==
    /\ failures' = [failures EXCEPT ![n] = @ + 1]
    /\ IF attempts_remain(n)
       THEN /\ tstate' = [tstate EXCEPT ![n] = "sleeping"]
            /\ sleeps' = [sleeps EXCEPT ![n] = Append(@, Pow2(attempt[n]))]
            /\ UNCHANGED gather_exception
       ELSE /\ tstate' = gather_children([tstate EXCEPT ![n] = "failed"])
            /\ gather_set_exception(exception(n))
            /\ UNCHANGED sleeps
    /\ UNCHANGED <<attempt, results_cache>>

\* the whole cache where the code has the entries of the dependencies
dep_results_whole_cache(n) == results_cache

\* dep_results (line 58)
dep_results(n) == [d \in Range(tasks[n].dependencies) |-> results_cache[d]]

\* the arguments of task.function (lines 62-70): self.config, and
\* dep_results if task.dependencies is not empty
arguments(n) ==
    IF tasks[n].dependencies # <<>> THEN <<"config", dep_results(n)>>
    ELSE <<"config">>

\* task.function is called (lines 63, 65, 68, 70)
invoke(n) ==
    /\ invocations' = [invocations EXCEPT ![n] = @ + 1]
    /\ call_args' = [call_args EXCEPT ![n] = arguments(n)]

\* The event loop runs one coroutine at a time, up to its next await. While
\* execute_task is inside a plain function (lines 68, 70), which has no
\* await, the loop runs nothing else: no other coroutine, no timeout.
loop_free == \A m \in Names : tstate[m] # "calling"

\* where an invocation leaves execute_task: awaiting the coroutine (lines
\* 63, 65), or inside the call of a plain function (lines 68, 70)
in_flight(n) == IF tasks[n].kind = "coroutine" THEN "awaiting" ELSE "calling"

\* execute_task(n) was handed to gather and has not run yet
not_begun(n) == tstate[n] = "scheduled" /\ attempt[n] = 0

\* asyncio.gather(*tasks) (lines 121-122) makes a Task of each coroutine in
\* the order of the list, and the event loop runs their first steps in that
\* order: n begins after the tasks that stand before it in the layer
first_steps_in_order(n) ==
    LET layer == priority_layers[layer_index]
    IN  \A i, j \in 1..Len(layer) : (j < i /\ layer[i] = n) => ~not_begun(layer[j])

\* lines 53-70: an attempt begins. A dependency missing from the cache is a
\* KeyError at line 58, caught at line 79.
start_attempt(n) ==
    /\ n \in DOMAIN tasks
    /\ tstate[n] = "scheduled"
    /\ loop_free
    /\ attempt[n] = 0 => first_steps_in_order(n)
    /\ IF \E d \in Range(tasks[n].dependencies) : d \notin DOMAIN results_cache
       THEN attempt_fails(n) /\ UNCHANGED <<invocations, call_args>>
       ELSE /\ tstate' = [tstate EXCEPT ![n] = in_flight(n)]
            /\ invoke(n)
            /\ UNCHANGED <<attempt, results_cache, failures, sleeps,
                           gather_exception>>
    /\ UNCHANGED <<regVars, layerVars, layer_index>>
    /\ UNCHANGED mainVars

\* lines 66-70: a plain function runs to its end inside the coroutine; the
\* timeout of line 56 cannot interrupt it, and is cancelled when the block
\* is left
plain_call(n, b) ==
    /\ tstate[n] = "calling"
    /\ IF b = "raises" THEN attempt_fails(n) ELSE attempt_succeeds(n)

\* lines 63-65 and 77-81: the awaited coroutine ends, or the timeout of
\* line 56 cancels it
awaited_call(n, b) ==
    /\ tstate[n] = "awaiting"
    /\ loop_free
    /\ IF b = "returns" THEN attempt_succeeds(n) ELSE attempt_fails(n)

\* the invocation of task.function ends
end_attempt(n, b) ==
    /\ n \in DOMAIN tasks
    /\ awaited_call(n, b) \/ plain_call(n, b)
    /\ UNCHANGED <<regVars, layerVars, layer_index, invocations, call_args>>
    /\ UNCHANGED mainVars

\* line 84 returns: the next iteration of the for loop (line 53)
wake_up(n) ==
    /\ tstate[n] = "sleeping"
    /\ loop_free
    /\ tstate' = [tstate EXCEPT ![n] = "scheduled"]
    /\ attempt' = [attempt EXCEPT ![n] = @ + 1]
    /\ UNCHANGED <<regVars, layerVars, layer_index, results_cache, invocations,
                   failures, sleeps, gather_exception, call_args>>
    /\ UNCHANGED mainVars

(***************************************************************************)
(* run (lines 119-128): the execution of the layers                        *)
(***************************************************************************)
current_layer ==
    IF layer_index = 0 THEN {} ELSE Range(priority_layers[layer_index])

\* a wait that ends with the first execute_task that returns
gather_returns_first == current_layer = {} \/ \E n \in current_layer : tstate[n] = "done"

\* a gather that collects exceptions instead of raising them
gather_returns_exceptions == \A n \in current_layer : tstate[n] \in {"done", "failed"}

\* asyncio.gather(*tasks) returns: every execute_task of the layer returned
gather_returns == \A n \in current_layer : tstate[n] = "done"

\* lines 120-122: the next layer's execute_task coroutines are handed to gather
launch_layer ==
    /\ pc = "exec"
    /\ gather_returns
    /\ layer_index < Len(priority_layers)
    /\ layer_index' = layer_index + 1
    /\ tstate' = [n \in Names |->
                    IF n \in Range(priority_layers[layer_index + 1])
                    THEN "scheduled" ELSE tstate[n]]
    /\ attempt' = [n \in Names |->
                    IF n \in Range(priority_layers[layer_index + 1])
                    THEN 0 ELSE attempt[n]]
    /\ gather_exception' = NoException
    /\ UNCHANGED <<regVars, layerVars, results_cache, invocations, failures,
                   sleeps, call_args>>
    /\ UNCHANGED mainVars

\* line 124
run_returns ==
    /\ pc = "exec"
    /\ gather_returns
    /\ layer_index = Len(priority_layers)
    /\ pc' = "returned"
    /\ UNCHANGED <<task_order, visited, priority_layers, runError>>
    /\ UNCHANGED <<regVars, execVars>>
    /\ UNCHANGED mainVars

\* lines 122, 126-128: gather raises the exception of an execute_task that
\* gave up; run logs it and raises it again. The event loop resumes run after
\* the first steps of the layer's tasks, which were queued before.
run_raises ==
    /\ pc = "exec"
    /\ loop_free
    /\ gather_exception # NoException
    /\ \A n \in current_layer : ~not_begun(n)
    /\ pc' = "raised"
    /\ runError' = "TaskFailed"
    /\ UNCHANGED <<task_order, visited, priority_layers>>
    /\ UNCHANGED <<regVars, execVars>>
    /\ UNCHANGED mainVars

\* run is called again on the same scheduler, after an earlier call has
\* returned or raised and every execute_task of it has ended: lines 90-96,
\* as in run_start. Nothing in run or in execute_task empties
\* self.results_cache, which __init__ creates (line 31). What was observed
\* of the earlier call's execute_task coroutines is forgotten.
run_again ==
    LET r == topological_sort(nodes, succ)
    IN  /\ pc \in {"returned", "raised"}
        /\ \A n \in Names : tstate[n] \in {"idle", "done", "failed"}
        /\ IF r.feasible
           THEN /\ pc' = "layers"
                /\ task_order' = r.order
                /\ runError' = "none"
           ELSE /\ pc' = "raised"
                /\ task_order' = <<>>
                /\ runError' = "NetworkXUnfeasible"
        /\ visited' = {}
        /\ priority_layers' = <<>>
        /\ layer_index' = 0
        /\ tstate' = [n \in Names |-> "idle"]
        /\ attempt' = [n \in Names |-> 0]
        /\ invocations' = [n \in Names |-> 0]
        /\ failures' = [n \in Names |-> 0]
        /\ sleeps' = [n \in Names |-> <<>>]
        /\ gather_exception' = NoException
        /\ call_args' = [n \in Names |-> <<>>]
        /\ UNCHANGED <<regVars, results_cache>>
        /\ UNCHANGED mainVars

(***************************************************************************)
(* main, run_pipeline, start_service, wait_for_api (src/main.py)           *)
(***************************************************************************)
MaxPolls == 2      \* requests wait_for_api makes before its timeout has passed

\* create_pipeline_tasks (src/pipeline/tasks.py lines 175-199): "fetch",
\* "transform" (after fetch), "validate" (after transform) and "save" (after
\* transform and validate), here under the names A, B, C and D; fetch and
\* save are coroutine functions, transform and validate plain functions
create_pipeline_tasks ==
    << PipelineTask("A", MEDIUM, <<>>, DefaultRetries, "coroutine"),
       PipelineTask("B", MEDIUM, <<"A">>, DefaultRetries, "plain"),
       PipelineTask("C", MEDIUM, <<"B">>, DefaultRetries, "plain"),
       PipelineTask("D", MEDIUM, <<"B", "C">>, DefaultRetries, "coroutine") >>

\* run_pipeline, lines 46-47: the next task of the list is added
run_pipeline_add ==
    /\ mpc = "pipeline"
    /\ nAdds < Len(create_pipeline_tasks)
    /\ add_task(create_pipeline_tasks[nAdds + 1])

\* run_pipeline, line 49: scheduler.run() is called
run_pipeline_run ==
    /\ mpc = "pipeline"
    /\ nAdds = Len(create_pipeline_tasks)
    /\ run_start

schedVars == <<regVars, layerVars, execVars>>

\* main raises: the except of lines 87-89 logs the error and raises it again
main_raises(error) ==
    /\ mpc' = "ended"
    /\ mainResult' = error

\* main, lines 56-57: run_pipeline returned
main_pipeline_completed ==
    /\ mpc = "pipeline"
    /\ pc = "returned"
    /\ mpc' = "start_api"
    /\ UNCHANGED <<mainResult, api_process, dashboard_process, polls, api_ready>>
    /\ UNCHANGED schedVars

\* main, line 56: run_pipeline raised what run raised
main_pipeline_failed ==
    /\ mpc = "pipeline"
    /\ pc = "raised"
    /\ main_raises("PipelineFailed")
    /\ UNCHANGED <<api_process, dashboard_process, polls, api_ready>>
    /\ UNCHANGED schedVars

\* start_service (lines 25-36): Popen returns the process; or it raises a
\* SubprocessError and start_service returns None; or it raises another
\* exception (an OSError when the command is not found), which start_service
\* does not catch
StartOutcomes == {"started", "None", "OSError"}

\* main, lines 60-63: the API server is started
main_start_api(o) ==
    /\ mpc = "start_api"
    /\ IF o = "started"
       THEN /\ api_process' = "running"
            /\ mpc' = "wait_api"
            /\ UNCHANGED mainResult
       ELSE /\ main_raises(IF o = "None" THEN "ApiStartFailed" ELSE "ApiStartRaised")
            /\ UNCHANGED api_process
    /\ UNCHANGED <<dashboard_process, polls, api_ready>>
    /\ UNCHANGED schedVars

\* the status codes of a response
StatusCodes == {200, 503}

\* a test that takes any response for readiness
is_ready_any_response(status) == status \in StatusCodes

\* response.status_code == 200 (line 18)
is_ready(status) == status = 200

\* wait_for_api, lines 15-20: a request is answered; main, lines 66-67
wait_for_api_response(status) ==
    /\ mpc = "wait_api"
    /\ polls < MaxPolls
    /\ polls' = polls + 1
    /\ IF is_ready(status)
       THEN mpc' = "start_dashboard" /\ api_ready' = (status = 200)
       ELSE UNCHANGED <<mpc, api_ready>>
    /\ UNCHANGED <<mainResult, api_process, dashboard_process>>
    /\ UNCHANGED schedVars

\* wait_for_api, lines 21-22: a request raises RequestException, and
\* wait_for_api sleeps for interval
wait_for_api_exception ==
    /\ mpc = "wait_api"
    /\ polls < MaxPolls
    /\ polls' = polls + 1
    /\ UNCHANGED <<mpc, mainResult, api_process, dashboard_process, api_ready>>
    /\ UNCHANGED schedVars

\* wait_for_api, lines 15 and 23: timeout has passed, after one request at
\* least; main, lines 66-67, raises RuntimeError
wait_for_api_timeout ==
    /\ mpc = "wait_api"
    /\ polls >= 1
    /\ main_raises("ApiNotReady")
    /\ UNCHANGED <<api_process, dashboard_process, polls, api_ready>>
    /\ UNCHANGED schedVars

\* main, lines 70-73: the dashboard is started
main_start_dashboard(o) ==
    /\ mpc = "start_dashboard"
    /\ IF o = "started"
       THEN /\ dashboard_process' = "running"
            /\ mpc' = "serving"
            /\ UNCHANGED mainResult
       ELSE /\ main_raises(IF o = "None" THEN "DashboardStartFailed"
                            ELSE "DashboardStartRaised")
            /\ UNCHANGED dashboard_process
    /\ UNCHANGED <<api_process, polls, api_ready>>
    /\ UNCHANGED schedVars

\* a service process ends by itself
process_exits ==
    /\ mpc # "ended"
    /\ \/ api_process = "running" /\ api_process' = "exited" /\ UNCHANGED dashboard_process
       \/ dashboard_process = "running" /\ dashboard_process' = "exited" /\ UNCHANGED api_process
    /\ UNCHANGED <<mpc, mainResult, polls, api_ready>>
    /\ UNCHANGED schedVars

\* process.terminate()
terminate(p) == IF p = "running" THEN "terminated" ELSE p

\* main, lines 82-85: both services are terminated, and main returns
main_shuts_down ==
    /\ api_process' = terminate(api_process)
    /\ dashboard_process' = terminate(dashboard_process)
    /\ mpc' = "ended"
    /\ mainResult' = "shutdown"

\* main, lines 77-81: poll() shows that a service has ended, RuntimeError
main_service_terminated ==
    /\ mpc = "serving"
    /\ api_process = "exited" \/ dashboard_process = "exited"
    /\ main_shuts_down
    /\ UNCHANGED <<polls, api_ready>>
    /\ UNCHANGED schedVars

\* How an interrupt (SIGINT) reaches main while it sleeps at line 78: as a
\* KeyboardInterrupt raised in the coroutine, which line 82 catches; or, with
\* asyncio.run cancelling the main task, as a CancelledError, which neither
\* line 82 nor line 87 catches
Interrupts == {"KeyboardInterrupt", "CancelledError"}

main_interrupted(i) ==
    /\ mpc = "serving"
    /\ IF i = "KeyboardInterrupt" THEN main_shuts_down
       ELSE main_raises(i) /\ UNCHANGED <<api_process, dashboard_process>>
    /\ UNCHANGED <<polls, api_ready>>
    /\ UNCHANGED schedVars

(***************************************************************************)
(* Callers                                                                 *)
(***************************************************************************)
Init ==
    /\ tasks = <<>>
    /\ nodes = <<>>
    /\ succ = [n \in Names |-> <<>>]
    /\ nAdds = 0
    /\ lastTask = NoTask
    /\ addResult = "none"
    /\ pc = "idle"
    /\ task_order = <<>>
    /\ visited = {}
    /\ priority_layers = <<>>
    /\ runError = "none"
    /\ layer_index = 0
    /\ tstate = [n \in Names |-> "idle"]
    /\ attempt = [n \in Names |-> 0]
    /\ results_cache = <<>>
    /\ invocations = [n \in Names |-> 0]
    /\ failures = [n \in Names |-> 0]
    /\ sleeps = [n \in Names |-> <<>>]
    /\ gather_exception = NoException
    /\ call_args = [n \in Names |-> <<>>]
    /\ mpc = "pipeline"
    /\ mainResult = "none"
    /\ api_process = "none"
    /\ dashboard_process = "none"
    /\ polls = 0
    /\ api_ready = FALSE

\* A caller that catches what add_task raises and goes on: any task, under
\* any of RegNames, in any order, then run.
RegNames == {"A", "B", "C"}

RegTasks ==
    {PipelineTask(n, p, d, DefaultRetries, "coroutine") :
        n \in RegNames, p \in {HIGH, LOW}, d \in DepListsOf(RegNames, MaxDeps)}

AddTask == \E t \in RegTasks : nAdds < MaxAdds /\ add_task(t)

NextReg == AddTask \/ run_start \/ layer_step \/ layers_done

SpecReg == Init /\ [][NextReg]_vars

\* run_pipeline (src/main.py lines 43-49): the tasks of a list are added in
\* order, the first error ends it, and run follows the last add_task. The
\* i-th task of the list has the i-th name of names.
pipeline_add(names, prios, retries, kinds) ==
    /\ nAdds < Len(names)
    /\ addResult \in {"none", "ok"}
    /\ \E p \in prios, d \in DepListsOf(Range(names), MaxDeps),
          r \in retries, k \in kinds :
            add_task(PipelineTask(names[nAdds + 1], p, d, r, k))

pipeline_run == addResult \in {"none", "ok"} /\ run_start

\* Lists of up to four tasks of any priority: the layers run computes
LayerNames == <<"A", "B", "C", "D">>

AddLayerTask == pipeline_add(LayerNames, Priority, {DefaultRetries}, {"coroutine"})

NextLayers == AddLayerTask \/ pipeline_run \/ layer_step \/ layers_done

SpecLayers == Init /\ [][NextLayers]_vars

\* Lists of up to three tasks, coroutine functions and plain functions, of
\* 1..MaxRetries retries: the execution of the layers
RunNames == <<"A", "B", "C">>

AddRunTask == pipeline_add(RunNames, {MEDIUM}, 1..MaxRetries, {"coroutine", "plain"})

StartAttempt == \E n \in Names : start_attempt(n)
EndAttempt == \E n \in Names, b \in Behaviours : end_attempt(n, b)
WakeUp == \E n \in Names : wake_up(n)

NextRun ==
    \/ AddRunTask
    \/ pipeline_run
    \/ layer_step
    \/ layers_done
    \/ launch_layer
    \/ StartAttempt
    \/ EndAttempt
    \/ WakeUp
    \/ run_returns
    \/ run_raises

SpecRun == Init /\ [][NextRun]_vars

\* The same lists, run with functions that run longer than task.timeout on
\* every invocation
EndSlowAttempt == \E n \in Names : end_attempt(n, "overruns")

NextSlow ==
    \/ AddRunTask
    \/ pipeline_run
    \/ layer_step
    \/ layers_done
    \/ launch_layer
    \/ StartAttempt
    \/ EndSlowAttempt
    \/ WakeUp
    \/ run_returns
    \/ run_raises

SpecSlow == Init /\ [][NextSlow]_vars

\* Lists of up to two tasks with coroutine functions, run any number of
\* times on the same scheduler
RerunNames == <<"A", "B">>

AddRerunTask == pipeline_add(RerunNames, {MEDIUM}, 1..MaxRetries, {"coroutine"})

NextRerun ==
    \/ AddRerunTask
    \/ pipeline_run
    \/ layer_step
    \/ layers_done
    \/ launch_layer
    \/ StartAttempt
    \/ EndAttempt
    \/ WakeUp
    \/ run_returns
    \/ run_raises
    \/ run_again

SpecRerun == Init /\ [][NextRerun]_vars

\* main (src/main.py lines 51-89): the pipeline of create_pipeline_tasks,
\* then the API server, then the dashboard
MainStartApi == \E o \in StartOutcomes : main_start_api(o)
WaitForApiResponse == \E status \in StatusCodes : wait_for_api_response(status)
MainStartDashboard == \E o \in StartOutcomes : main_start_dashboard(o)
MainInterrupted == \E i \in Interrupts : main_interrupted(i)

NextMain ==
    \/ run_pipeline_add
    \/ run_pipeline_run
    \/ layer_step
    \/ layers_done
    \/ launch_layer
    \/ StartAttempt
    \/ EndAttempt
    \/ WakeUp
    \/ run_returns
    \/ run_raises
    \/ main_pipeline_completed
    \/ main_pipeline_failed
    \/ MainStartApi
    \/ WaitForApiResponse
    \/ wait_for_api_exception
    \/ wait_for_api_timeout
    \/ MainStartDashboard
    \/ process_exits
    \/ main_service_terminated
    \/ MainInterrupted

SpecMain == Init /\ [][NextMain]_vars

(***************************************************************************)
(* Properties of add_task, under SpecReg                                   *)
(***************************************************************************)
\* the nodes that can be reached from n along one edge or more
RECURSIVE ReachableFrom(_, _, _)
ReachableFrom(sc, frontier, seen) ==
    LET next == UNION {Range(sc[u]) : u \in frontier} \ seen
    IN  IF next = {} THEN seen ELSE ReachableFrom(sc, next, seen \cup next)

Descendants(sc, n) == ReachableFrom(sc, {n}, {})

HasCycle(sc) == \E n \in Names : n \in Descendants(sc, n)

\* this step is an add_task call
AddTaskCall == nAdds' = nAdds + 1

RegistryUnchanged == tasks' = tasks /\ nodes' = nodes /\ succ' = succ

\* C1: an add_task call that fails with the unknown-dependency error leaves
\* the task map and the graph (nodes and edges) exactly as they were before
\* the call.
C1_UnknownDependencyLeavesRegistry ==
    [][(AddTaskCall /\ addResult' = "UnknownDependency") => RegistryUnchanged]_vars

\* C2: an add_task call that fails with the cycle-detected error leaves the
\* graph's nodes and edges, and the registry, identical to what they were
\* before the call.
C2_CycleDetectedLeavesRegistry ==
    [][(AddTaskCall /\ addResult' = "CycleDetected") => RegistryUnchanged]_vars

\* C3: after every add_task call, whether it returned or raised, the
\* dependency graph is acyclic.
C3_GraphStaysAcyclic == ~HasCycle(succ)

\* two tasks that each declare the other as a dependency
Mutual(t, u) ==
    /\ t.name # u.name
    /\ u.name \in Range(t.dependencies)
    /\ t.name \in Range(u.dependencies)

\* C4: on a fresh scheduler, when the first two add_task calls are given two
\* tasks that each declare the other as a dependency, the second call fails
\* with the cycle-detected error.
C4_MutualSecondAddFails ==
    [][(nAdds = 1 /\ nAdds' = 2 /\ Mutual(lastTask, lastTask'))
          => addResult' = "CycleDetected"]_vars

(***************************************************************************)
(* Properties of the layer computation, under SpecLayers                   *)
(***************************************************************************)
\* where n stands in priority_layers: <<layer, position>>
Occurrences(n) ==
    {ij \in (1..Len(priority_layers)) \X (1..Cardinality(Names)) :
        /\ ij[2] <= Len(priority_layers[ij[1]])
        /\ priority_layers[ij[1]][ij[2]] = n}

Placed == UNION {Range(priority_layers[i]) : i \in 1..Len(priority_layers)}

\* the index of a layer n is in
LayerOf(n) == CHOOSE i \in 1..Len(priority_layers) : n \in Range(priority_layers[i])

\* C5: when the layer computation has ended, every registered task is in
\* exactly one layer, and each of its declared dependencies is in a layer
\* of strictly smaller index.
C5_LayersPartitionRespectDependencies ==
    pc = "exec" =>
        \A n \in DOMAIN tasks :
            /\ Cardinality(Occurrences(n)) = 1
            /\ \A d \in Range(tasks[n].dependencies) :
                    d \in Placed /\ LayerOf(d) < LayerOf(n)

\* C5 witness: four tasks in three layers, one of them with two
\* dependencies that lie in different layers
C5_Witness ==
    /\ pc = "exec"
    /\ Cardinality(DOMAIN tasks) = 4
    /\ Len(priority_layers) = 3
    /\ \E n \in DOMAIN tasks :
          /\ Len(tasks[n].dependencies) = 2
          /\ LayerOf(tasks[n].dependencies[1]) # LayerOf(tasks[n].dependencies[2])

IndexIn(seq, n) == CHOOSE i \in 1..Len(seq) : seq[i] = n

\* the place of n in the order of registration (the first add_task call
\* with its name)
RegIndex(n) == IndexIn(nodes, n)

\* the place of n in what nx.topological_sort yields for the graph
TopoIndex(n) == IndexIn(topological_sort(nodes, succ).order, n)

PriorityOf(n) == tasks[n].priority

\* the pairs <<a, b>> where a stands before b in one layer
BeforeInLayer ==
    {ab \in Names \X Names :
        \E i \in 1..Len(priority_layers) :
            \E j, k \in 1..Len(priority_layers[i]) :
                j < k /\ priority_layers[i][j] = ab[1] /\ priority_layers[i][k] = ab[2]}

Started(n) == tstate[n] # "idle"

\* n completed successfully and its result is in the cache
Completed(n) == tstate[n] = "done" /\ n \in DOMAIN results_cache

\* C7: no attempt of a task starts before every declared dependency has
\* completed successfully and its result is in the result cache.
C7_DependenciesCompleteBeforeStart ==
    \A n \in DOMAIN tasks :
        (Started(n) \/ invocations[n] > 0) =>
            \A d \in Range(tasks[n].dependencies) : Completed(d)

\* C7 witness: the function of a task with two dependencies is in flight
C7_Witness ==
    \E n \in DOMAIN tasks :
        /\ tstate[n] = "awaiting"
        /\ Len(tasks[n].dependencies) = 2
        /\ \A d \in Range(tasks[n].dependencies) : Completed(d)

LayerTasks(i) == Range(priority_layers[i])

\* C8: no task of a later layer starts until every task of each earlier
\* layer has finished; and once a task of a layer has failed permanently,
\* run does not return normally and no task of a later layer is started.
C8_LayerBarrier ==
    \A i, j \in 1..Len(priority_layers) :
        i < j =>
            /\ (\E m \in LayerTasks(j) : Started(m)) =>
                    \A n \in LayerTasks(i) : tstate[n] = "done"
            /\ (\E n \in LayerTasks(i) : tstate[n] = "failed") =>
                    /\ pc # "returned"
                    /\ \A m \in LayerTasks(j) : ~Started(m) /\ invocations[m] = 0

\* C8 witness: run has raised because a task of the first layer failed
\* permanently, while a sibling is still in flight and the second layer
\* was never started
C8_Witness ==
    /\ pc = "raised"
    /\ Len(priority_layers) = 2
    /\ \E n \in LayerTasks(1) : tstate[n] = "failed"
    /\ \E n \in LayerTasks(1) : tstate[n] = "awaiting"
    /\ \A m \in LayerTasks(2) : ~Started(m)

\* C9 as claimed, for functions that run longer than the timeout on every
\* invocation: when execute_task ends it has failed permanently, after
\* exactly retries invocations, and no result is stored.
C9_AlwaysSlowFailsAfterRetries ==
    \A n \in DOMAIN tasks :
        tstate[n] \in {"done", "failed"} =>
            /\ tstate[n] = "failed"
            /\ invocations[n] = tasks[n].retries
            /\ n \notin DOMAIN results_cache

\* the delays 2^0, ..., 2^(k-1)
Backoff(k) == [i \in 1..k |-> 2 ^ (i - 1)]

\* C10: execute_task that succeeds after k failed attempts has k < retries,
\* invoked the function exactly k + 1 times and slept 2^0, ..., 2^(k-1)
\* between the attempts; one that failed permanently slept retries - 1
\* times, not after its final attempt.
C10_RetriesThenSuccess ==
    \A n \in DOMAIN tasks :
        /\ tstate[n] = "done" =>
              /\ failures[n] < tasks[n].retries
              /\ invocations[n] = failures[n] + 1
              /\ sleeps[n] = Backoff(failures[n])
        /\ tstate[n] = "failed" =>
              /\ failures[n] = tasks[n].retries
              /\ sleeps[n] = Backoff(tasks[n].retries - 1)

\* C10 witness: a task of 3 retries that failed twice and then succeeded,
\* having slept 1 and then 2
C10_Witness ==
    \E n \in DOMAIN tasks :
        /\ tasks[n].retries = 3
        /\ tstate[n] = "done"
        /\ failures[n] = 2
        /\ invocations[n] = 3
        /\ sleeps[n] = <<1, 2>>

\* C11: when run returns, the keys of the mapping it returns are exactly the
\* registered task names, and each name maps to the value its function
\* returned on the attempt of this run that succeeded.
C11_ReturnsEveryTasksResult ==
    pc = "returned" =>
        /\ DOMAIN results_cache = DOMAIN tasks
        /\ \A n \in DOMAIN tasks :
              /\ tstate[n] = "done"
              /\ results_cache[n] = ResultOf(n, failures[n])

\* C11 witness: run returned the results of three tasks in two layers or
\* more, one of them the result of a third attempt
C11_Witness ==
    /\ pc = "returned"
    /\ Cardinality(DOMAIN tasks) = 3
    /\ Len(priority_layers) >= 2
    /\ \E n \in DOMAIN tasks : failures[n] = 2 /\ results_cache[n] = ResultOf(n, 2)

\* no task of the layer that run is executing has failed permanently
NoneFailed == \A m \in current_layer : tstate[m] # "failed"

\* C12 as claimed: when a task has exhausted its retries, run raises one
\* error; it names the task that was the first to fail permanently, and
\* carries that task's number of attempts and the cause of its last failed
\* attempt; when run returns, no failure of an attempt is surfaced.
C12_FatalErrorCarriesLastCause ==
    /\ [](pc = "returned" => runError = "none" /\ gather_exception = NoException)
    /\ []((pc = "raised" /\ runError = "TaskFailed") =>
            /\ gather_exception.name \in DOMAIN tasks
            /\ tstate[gather_exception.name] = "failed"
            /\ gather_exception.attempts = failures[gather_exception.name]
            /\ gather_exception.cause \in Causes)
    /\ [][\A n \in DOMAIN tasks :
            (NoneFailed /\ tstate'[n] = "failed") => gather_exception'.name = n]_vars
    /\ [][gather_exception # NoException => gather_exception' = gather_exception]_vars

\* the layer index of n, counted from 0
LayerIndexOf(n) == LayerOf(n) - 1

Max(S) == CHOOSE x \in S : \A y \in S : y <= x

\* the length of the longest chain of declared dependencies that ends in n:
\* a function of the dependency lists alone
RECURSIVE DepthOf(_)
DepthOf(n) ==
    IF tasks[n].dependencies = <<>> THEN 0
    ELSE 1 + Max({DepthOf(d) : d \in Range(tasks[n].dependencies)})

\* C13: the layer of a task is a function of the dependencies alone, and
\* the least its dependencies allow: a task without dependencies is in
\* layer 0, a task with dependencies in layer 1 + the largest layer index of
\* its dependencies; the priorities have no part in it.
C13_LayerIsDependencyDepth ==
    pc = "exec" =>
        \A n \in DOMAIN tasks :
            /\ n \in Placed
            /\ LayerIndexOf(n) =
                  IF tasks[n].dependencies = <<>> THEN 0
                  ELSE 1 + Max({LayerIndexOf(d) : d \in Range(tasks[n].dependencies)})
            /\ LayerIndexOf(n) = DepthOf(n)

\* C13 witness: a task whose two dependencies lie in different layers, in
\* the layer after the later one; a task of priority LOW in layer 0 and a
\* task of priority HIGH in layer 2
C13_Witness ==
    /\ pc = "exec"
    /\ \E n \in DOMAIN tasks :
          /\ Len(tasks[n].dependencies) = 2
          /\ LayerIndexOf(tasks[n].dependencies[1]) = 0
          /\ LayerIndexOf(tasks[n].dependencies[2]) = 1
          /\ LayerIndexOf(n) = 2
    /\ \E a, b \in DOMAIN tasks :
          /\ PriorityOf(a) = LOW /\ LayerIndexOf(a) = 0
          /\ PriorityOf(b) = HIGH /\ LayerIndexOf(b) = 2

\* this step ends an attempt of n
AttemptEnds(n) ==
    /\ tstate[n] \in {"scheduled", "awaiting", "calling"}
    /\ tstate'[n] \in {"done", "sleeping", "failed"}

\* this step is the one write of n: under its own name, which the cache did
\* not hold, the value of the attempt that succeeds with this step
OwnWrite(n) ==
    /\ AttemptEnds(n)
    /\ tstate'[n] = "done"
    /\ n \notin DOMAIN results_cache
    /\ results_cache' = put_result(results_cache, n, ResultOf(n, attempt[n]))

\* the cache changes only by the one write of a task whose attempt succeeds,
\* and an attempt that fails leaves it unchanged
CacheWrittenOnSuccessOnly ==
    /\ [][results_cache' # results_cache => \E n \in DOMAIN tasks : OwnWrite(n)]_vars
    /\ [][failures' # failures => results_cache' = results_cache]_vars

\* C14 as claimed, for functions that run longer than the timeout on every
\* invocation: a task writes the cache once, under its own name, and only
\* when one of its attempts succeeded; an attempt that fails or times out
\* leaves the cache unchanged. Here every attempt times out.
C14_TimedOutAttemptLeavesCache ==
    /\ CacheWrittenOnSuccessOnly
    /\ [][(\E n \in DOMAIN tasks : AttemptEnds(n))
            => results_cache' = results_cache]_vars

\* C15: every attempt invokes the function; the function of a task with
\* dependencies gets the configuration and a mapping whose keys are exactly
\* the declared dependencies, each with that dependency's result in the
\* cache; the function of a task without dependencies gets the
\* configuration only.
C15_ActionGetsDependencyResults ==
    \A n \in DOMAIN tasks :
        /\ failures[n] <= invocations[n]
        /\ invocations[n] > 0 =>
              IF tasks[n].dependencies = <<>> THEN call_args[n] = <<"config">>
              ELSE /\ Len(call_args[n]) = 2
                   /\ call_args[n][1] = "config"
                   /\ DOMAIN call_args[n][2] = Range(tasks[n].dependencies)
                   /\ \A d \in Range(tasks[n].dependencies) :
                         /\ d \in DOMAIN results_cache
                         /\ call_args[n][2][d] = results_cache[d]

\* C15 witness: the second attempt of a task with two dependencies got the
\* results of both, one of them a second attempt's; the function of one of
\* them got the configuration only
C15_Witness ==
    \E n \in DOMAIN tasks :
        /\ invocations[n] = 2
        /\ Len(tasks[n].dependencies) = 2
        /\ DOMAIN call_args[n][2] = Range(tasks[n].dependencies)
        /\ \E d \in Range(tasks[n].dependencies) :
              /\ call_args[n][2][d] = ResultOf(d, 1)
              /\ call_args[d] = <<"config">>

\* what execute_task(m) has done and where it is
ExecutionOf(m) ==
    <<tstate[m], attempt[m], invocations[m], failures[m], sleeps[m], call_args[m]>>

\* execute_task(m) was dispatched and has not ended
Running(m) == tstate[m] \in {"scheduled", "awaiting", "calling", "sleeping"}

\* the step execute_task(m) takes next
OwnStep(m) ==
    \/ start_attempt(m)
    \/ \E b \in Behaviours : end_attempt(m, b)
    \/ wake_up(m)

\* the event loop can run execute_task(m): it is not inside the plain
\* function of another task, and the first step of m is not behind that of
\* a task before it in the layer
LoopTurn(m) ==
    /\ loop_free \/ tstate[m] = "calling"
    /\ not_begun(m) => first_steps_in_order(m)

\* C16: a step in which an attempt of one task fails or times out, for the
\* last time or not, and the step in which run raises, leave every other
\* task's execution as it is; a task that was dispatched is running, done or
\* failed permanently, and while it is running its next step can be taken
\* whenever the event loop can run it, whatever happened to its siblings and
\* to run; while a task is running, some task's next step can be taken.
C16_SiblingsRunOn ==
    /\ [][\A n, m \in DOMAIN tasks :
            (n # m /\ failures'[n] # failures[n]) => ExecutionOf(m)' = ExecutionOf(m)]_vars
    /\ [][(pc = "exec" /\ pc' = "raised") => \A m \in DOMAIN tasks : ExecutionOf(m)' = ExecutionOf(m)]_vars
    /\ [](\A m \in DOMAIN tasks :
            /\ tstate[m] \in {"idle", "scheduled", "awaiting", "calling", "sleeping",
                            "done", "failed"}
            /\ (Running(m) /\ LoopTurn(m)) => ENABLED OwnStep(m))
    /\ []((\E m \in DOMAIN tasks : Running(m)) => \E m \in DOMAIN tasks : ENABLED OwnStep(m))

\* C16 witness: run has raised the exception of the first task that failed
\* permanently, and a sibling went on through its three attempts after that,
\* until it failed permanently itself
C16_Witness ==
    /\ pc = "raised"
    /\ \E n, m \in current_layer :
          /\ n # m
          /\ gather_exception.name = n
          /\ tstate[n] = "failed"
          /\ tstate[m] = "failed"
          /\ failures[n] = 1
          /\ failures[m] = 3

\* the function of n was invoked and has not ended
InFlight(n) == tstate[n] \in {"awaiting", "calling"}

\* C17 as claimed: in a layer of two tasks or more, whether their functions
\* are coroutine functions or plain functions, a task whose turn it is to
\* begin its first attempt can begin it while the function of a sibling is
\* in flight: it does not have to wait for that function to end, so that
\* sibling attempts are in flight together.
C17_FirstAttemptNeverWaits ==
    \A n, m \in current_layer :
        (n # m /\ InFlight(m) /\ not_begun(n) /\ first_steps_in_order(n))
            => ENABLED start_attempt(n)

\* what the code does: while a plain function is in flight no sibling
\* attempt begins, and no two plain functions are in flight together
PlainCallsAlone ==
    /\ [](\A n, m \in DOMAIN tasks :
            (n # m /\ tstate[n] = "calling") => tstate[m] # "calling")
    /\ [][\A n, m \in DOMAIN tasks :
            (n # m /\ tstate[m] = "calling") => invocations'[n] = invocations[n]]_vars

\* C18 as claimed: an add_task call with a task whose name is registered
\* already fails, and leaves the registry entry of that name and the
\* graph's nodes and edges as they were.
C18_DuplicateNameRejected ==
    [][(AddTaskCall /\ lastTask'.name \in DOMAIN tasks)
          => (addResult' # "ok" /\ RegistryUnchanged)]_vars

\* C19 as claimed: when a call of run begins, the result cache holds no
\* entry that an earlier call of run on the same scheduler wrote.
C19_CacheEmptyWhenRunBegins ==
    [][(pc # "layers" /\ pc' = "layers") => results_cache' = <<>>]_vars

\* C20 as claimed: run ends, returning or raising, whatever add_task calls
\* came before it, those that raised included; in particular every
\* iteration of the layer-building loop places a task. An iteration that
\* places none leaves task_order and visited as they are, and so does every
\* iteration after it.
C20_LayerLoopPlacesATask ==
    (pc = "layers" /\ task_order # <<>>) => ready_tasks(task_order, visited) # <<>>

\* run has ended: it returned the result mapping or raised
RunEnded == pc \in {"returned", "raised"}

\* C21 as claimed: once run has returned or raised, no execute_task that it
\* started is in flight: from then on no function is invoked, no attempt is
\* begun again and the result cache is not written.
C21_NothingInFlightAfterRun ==
    /\ [](RunEnded => \A n \in DOMAIN tasks : ~Running(n))
    /\ [][RunEnded => /\ invocations' = invocations
                     /\ attempt' = attempt
                     /\ results_cache' = results_cache]_vars

(***************************************************************************)
(* Properties of main, under SpecMain                                      *)
(***************************************************************************)
\* C22: the API server is started only after the pipeline run has returned,
\* every task done; the dashboard is started only after the API server was
\* started and has answered a request with status 200; when the pipeline
\* failed, the API server did not start or did not become ready in time,
\* the dashboard is never started.
C22_ServicesStartInOrder ==
    /\ api_process # "none" =>
          pc = "returned" /\ \A n \in DOMAIN tasks : tstate[n] = "done"
    /\ dashboard_process # "none" => (api_process # "none" /\ api_ready)
    /\ mainResult \in {"PipelineFailed", "ApiStartFailed", "ApiStartRaised", "ApiNotReady"}
          => dashboard_process = "none"

\* C22 witness: the dashboard runs, started after the API server answered
\* its second request with status 200, after a pipeline run in which a task
\* needed a second attempt
C22_Witness ==
    /\ mpc = "serving"
    /\ api_process = "running"
    /\ dashboard_process = "running"
    /\ api_ready
    /\ polls = 2
    /\ pc = "returned"
    /\ \E n \in DOMAIN tasks : failures[n] = 1

\* C23 as claimed: when main has ended, by shutdown or with an error, no
\* service process that it started is left running: the API server process
\* has been terminated, and the dashboard process if it was started.
C23_NoServiceLeftRunning ==
    mpc = "ended" => (api_process # "running" /\ dashboard_process # "running")

====
